---- MODULE Spec2Model ----
(***************************************************************************)
(* Model of battleground_construct.                                        *)
(*                                                                         *)
(* Each part has its own specification over its own variables; the         *)
(* variables of the other parts are unused in it.                          *)
(*   Spec          the GunBattery component (components/gun_battery.rs)    *)
(*   SpecClock     Construct::new / Construct::update and the clock        *)
(*   SpecKin       world_velocity over parent chains (velocity.rs)         *)
(*   SpecIntegrate Velocity::integrate, step by step (velocity.rs)         *)
(*   SpecFuel      control-program invocations under a fuel budget         *)
(*   SpecRegs      the register map of a unit                              *)
(* Time is the f32 simulation time of the source, modelled as an integer   *)
(* number of time units; durations are integers in the same unit.          *)
(* Transforms are 4x4 integer matrices with rotations in quarter turns;    *)
(* f32 rounding is not modelled.                                           *)
(***************************************************************************)
EXTENDS Integers, Sequences, FiniteSets, TLC

\* ------------------------------------------------------------------ bounds
\* Largest number of guns (poses) in a battery configuration.
MaxGuns == 2
\* Largest inter_gun_duration / gun_reload / battery_reload of a configuration.
MaxDuration == 2
\* Largest time value passed to update / fired.
MaxTime == 3

Durations == 0..MaxDuration
Times == 0..MaxTime

\* ----------------------------------------------------------- GunBattery
\* Pose of gun i (1-based) of a configuration: a translation along y, as the
\* configurations of test_gun_battery use.
PoseOf(i) == <<0, i - 1, 0>>

\* GunBatteryConfig; the fire effect is an opaque callback and not modelled.
GunBatteryConfig(n, igd, gr, br) ==
    [ inter_gun_duration |-> igd,
      gun_reload         |-> gr,
      battery_reload     |-> br,
      poses              |-> [i \in 1..n |-> PoseOf(i)] ]

\* The configurations explored: at least one gun.
Configs ==
    { GunBatteryConfig(n, igd, gr, br) :
        n \in 1..MaxGuns, igd \in Durations, gr \in Durations, br \in Durations }

\* GunStatus
GunStatus(last_fire_time, is_ready) ==
    [ last_fire_time |-> last_fire_time, is_ready |-> is_ready ]

\* GunBattery::new
new(config) ==
    [ config                    |-> config,
      current_index             |-> 0,
      last_gun_fire_time        |-> 0 - config.gun_reload,
      last_in_battery_fire_time |-> 0 - config.battery_reload,
      is_triggered              |-> FALSE,
      is_ready                  |-> TRUE,
      status |-> [i \in 1..Len(config.poses) |->
                    GunStatus(0 - config.gun_reload, TRUE)] ]

\* GunBattery::set_trigger
set_trigger(self, value) == [self EXCEPT !.is_triggered = value]

\* update with the inter-gun comparison made strict (> for >=).
update_strict_interval(self, current_time) ==
    LET status == [i \in DOMAIN self.status |->
                     [self.status[i] EXCEPT !.is_ready =
                        (current_time - self.status[i].last_fire_time)
                            >= self.config.gun_reload]]
    IN  [self EXCEPT
            !.status = status,
            !.is_ready =
                /\ (current_time - self.last_in_battery_fire_time)
                        >= self.config.battery_reload
                /\ \E i \in DOMAIN status : status[i].is_ready
                /\ (current_time - self.last_gun_fire_time)
                        > self.config.inter_gun_duration]

\* update that restarts the inter-gun interval whenever it finds the device ready.
update_restarts_interval(self, current_time) ==
    LET status == [i \in DOMAIN self.status |->
                     [self.status[i] EXCEPT !.is_ready =
                        (current_time - self.status[i].last_fire_time)
                            >= self.config.gun_reload]]
        ready ==
            /\ (current_time - self.last_in_battery_fire_time)
                    >= self.config.battery_reload
            /\ \E i \in DOMAIN status : status[i].is_ready
            /\ (current_time - self.last_gun_fire_time)
                    >= self.config.inter_gun_duration
    IN  [self EXCEPT
            !.status = status,
            !.is_ready = ready,
            !.last_gun_fire_time = IF ready THEN current_time ELSE @]

\* update that leaves the inter-gun interval out of the device readiness.
update_ignores_interval(self, current_time) ==
    LET status == [i \in DOMAIN self.status |->
                     [self.status[i] EXCEPT !.is_ready =
                        (current_time - self.status[i].last_fire_time)
                            >= self.config.gun_reload]]
    IN  [self EXCEPT
            !.status = status,
            !.is_ready =
                /\ (current_time - self.last_in_battery_fire_time)
                        >= self.config.battery_reload
                /\ \E i \in DOMAIN status : status[i].is_ready]

\* update that leaves the per-gun reload out of the device readiness.
update_ignores_guns(self, current_time) ==
    LET status == [i \in DOMAIN self.status |->
                     [self.status[i] EXCEPT !.is_ready =
                        (current_time - self.status[i].last_fire_time)
                            >= self.config.gun_reload]]
    IN  [self EXCEPT
            !.status = status,
            !.is_ready =
                /\ (current_time - self.last_in_battery_fire_time)
                        >= self.config.battery_reload
                /\ (current_time - self.last_gun_fire_time)
                        >= self.config.inter_gun_duration]

\* GunBattery::update
update(self, current_time) ==
    LET gun_interval_done ==
            (current_time - self.last_gun_fire_time)
                >= self.config.inter_gun_duration
        battery_reload_done ==
            (current_time - self.last_in_battery_fire_time)
                >= self.config.battery_reload
        status == [i \in DOMAIN self.status |->
                     [self.status[i] EXCEPT !.is_ready =
                        (current_time - self.status[i].last_fire_time)
                            >= self.config.gun_reload]]
        at_least_one_gun_loaded == \E i \in DOMAIN status : status[i].is_ready
    IN  [self EXCEPT
            !.status = status,
            !.is_ready = battery_reload_done /\ at_least_one_gun_loaded
                            /\ gun_interval_done]

\* fired that stamps last_in_battery_fire_time on every firing.
fired_stamps_battery_always(self, current_time) ==
    LET i == self.current_index + 1
        this_gun == [self EXCEPT
                        !.status[i].is_ready = FALSE,
                        !.status[i].last_fire_time = current_time,
                        !.last_gun_fire_time = current_time,
                        !.last_in_battery_fire_time = current_time]
        advanced ==
            [this_gun EXCEPT !.current_index =
                IF self.current_index + 1 >= Len(self.status)
                THEN 0 ELSE self.current_index + 1]
    IN  [ self |-> update(advanced, current_time),
          fire_pose |-> self.config.poses[i] ]

\* fired that never stamps last_in_battery_fire_time.
fired_no_battery_stamp(self, current_time) ==
    LET i == self.current_index + 1
        this_gun == [self EXCEPT
                        !.status[i].is_ready = FALSE,
                        !.status[i].last_fire_time = current_time,
                        !.last_gun_fire_time = current_time]
        advanced ==
            [this_gun EXCEPT !.current_index =
                IF self.current_index + 1 >= Len(self.status)
                THEN 0 ELSE self.current_index + 1]
    IN  [ self |-> update(advanced, current_time),
          fire_pose |-> self.config.poses[i] ]

\* fired that reads the pose after advancing the index.
fired_pose_after_advance(self, current_time) ==
    LET i == self.current_index + 1
        this_gun == [self EXCEPT
                        !.status[i].is_ready = FALSE,
                        !.status[i].last_fire_time = current_time,
                        !.last_gun_fire_time = current_time]
        advanced ==
            IF self.current_index + 1 >= Len(self.status)
            THEN [this_gun EXCEPT
                    !.last_in_battery_fire_time = current_time,
                    !.current_index = 0]
            ELSE [this_gun EXCEPT !.current_index = self.current_index + 1]
    IN  [ self |-> update(advanced, current_time),
          fire_pose |-> self.config.poses[advanced.current_index + 1] ]

\* fired that does not re-invoke update before returning.
fired_without_update(self, current_time) ==
    LET i == self.current_index + 1
        this_gun == [self EXCEPT
                        !.status[i].is_ready = FALSE,
                        !.status[i].last_fire_time = current_time,
                        !.last_gun_fire_time = current_time]
        advanced ==
            IF self.current_index + 1 >= Len(self.status)
            THEN [this_gun EXCEPT
                    !.last_in_battery_fire_time = current_time,
                    !.current_index = 0]
            ELSE [this_gun EXCEPT !.current_index = self.current_index + 1]
    IN  [ self |-> advanced, fire_pose |-> self.config.poses[i] ]

\* fired that does nothing to the battery when it is not ready.
fired_gated(self, current_time) ==
    LET i == self.current_index + 1
        this_gun == [self EXCEPT
                        !.status[i].is_ready = FALSE,
                        !.status[i].last_fire_time = current_time,
                        !.last_gun_fire_time = current_time]
        advanced ==
            IF self.current_index + 1 >= Len(self.status)
            THEN [this_gun EXCEPT
                    !.last_in_battery_fire_time = current_time,
                    !.current_index = 0]
            ELSE [this_gun EXCEPT !.current_index = self.current_index + 1]
    IN  [ self |-> IF self.is_ready THEN update(advanced, current_time) ELSE self,
          fire_pose |-> self.config.poses[i] ]

\* fired whose wrap-around test is > instead of >=.
fired_wraps_late(self, current_time) ==
    LET i == self.current_index + 1
        this_gun == [self EXCEPT
                        !.status[i].is_ready = FALSE,
                        !.status[i].last_fire_time = current_time,
                        !.last_gun_fire_time = current_time]
        advanced ==
            IF self.current_index + 1 > Len(self.status)
            THEN [this_gun EXCEPT
                    !.last_in_battery_fire_time = current_time,
                    !.current_index = 0]
            ELSE [this_gun EXCEPT !.current_index = self.current_index + 1]
    IN  [ self |-> update(advanced, current_time), fire_pose |-> self.config.poses[i] ]

\* fired that releases the trigger.
fired_releases_trigger(self, current_time) ==
    LET i == self.current_index + 1
        this_gun == [self EXCEPT
                        !.status[i].is_ready = FALSE,
                        !.status[i].last_fire_time = current_time,
                        !.last_gun_fire_time = current_time,
                        !.is_triggered = FALSE]
        advanced ==
            IF self.current_index + 1 >= Len(self.status)
            THEN [this_gun EXCEPT
                    !.last_in_battery_fire_time = current_time,
                    !.current_index = 0]
            ELSE [this_gun EXCEPT !.current_index = self.current_index + 1]
    IN  [ self |-> update(advanced, current_time), fire_pose |-> self.config.poses[i] ]

\* GunBattery::fired: the battery after the call and the returned pose.
\* current_index is 0-based as in the source; sequences are 1-based.
fired(self, current_time) ==
    LET i == self.current_index + 1
        this_gun == [self EXCEPT
                        !.status[i].is_ready = FALSE,
                        !.status[i].last_fire_time = current_time,
                        !.last_gun_fire_time = current_time]
        fire_pose == self.config.poses[i]
        advanced ==
            IF self.current_index + 1 >= Len(self.status)
            THEN [this_gun EXCEPT
                    !.last_in_battery_fire_time = current_time,
                    !.current_index = 0]
            ELSE [this_gun EXCEPT !.current_index = self.current_index + 1]
    IN  [ self |-> update(advanced, current_time), fire_pose |-> fire_pose ]

\* ------------------------------------------------------------------ state
VARIABLES
    battery,      \* the GunBattery component
    op,           \* the last call made on it: "new", "update", "fired", "set_trigger"
    now,          \* the time passed to the last update / fired call (0 after new)
    ret,          \* the pose returned by the last fired call (<<>> before any)
    shots,        \* number of fired calls so far, modulo the number of guns
    last_shot,    \* the time passed to the last fired call, -1 before any
    last_wrap,    \* the time passed to the last fired call on the last gun, -1 before any
    disciplined   \* so far time never decreased and fired was only called when is_ready()

gbvars == <<battery, op, now, ret, shots, last_shot, last_wrap, disciplined>>

\* State of the other parts of the model; each part has its own specification,
\* in which the variables of the other parts are unused and never change.
VARIABLES
    construct,    \* the Construct: its world (the clocks in it) and its systems
    n_updates,    \* number of Construct::update calls so far
    world,        \* the entity/component store read by world_velocity
    walk,         \* the running world_velocity call: its position, locals and result
    integ,        \* a pose being integrated step by step: pose, velocity, dt, steps
    control,      \* a control program under fuel metering
    regs,         \* the register map of a unit and the last access made to it
    cannon,       \* the projectiles spawned by the tank's fire effect
    finish,       \* the world as MatchLogicFinished reads and writes it
    tank,         \* the world while Construct::new and spawn_tank build it
    units         \* the units of a tick and their control programs

clockvars == <<construct, n_updates>>
kinvars == <<world, walk>>
intvars == <<integ>>
fuelvars == <<control>>
regvars == <<regs>>
cannonvars == <<cannon>>
finishvars == <<finish>>
tankvars == <<tank>>
unitvars == <<units>>

vars ==
    <<gbvars, clockvars, kinvars, intvars, fuelvars, regvars, cannonvars,
      finishvars, tankvars, unitvars>>

Unused == "unused"
gbUnused ==
    /\ battery = Unused /\ op = Unused /\ now = Unused /\ ret = Unused
    /\ shots = Unused /\ last_shot = Unused /\ last_wrap = Unused
    /\ disciplined = Unused
clockUnused == construct = Unused /\ n_updates = Unused
kinUnused == world = Unused /\ walk = Unused
intUnused == integ = Unused
fuelUnused == control = Unused
regUnused == regs = Unused
cannonUnused == cannon = Unused
finishUnused == finish = Unused
tankUnused == tank = Unused
unitUnused == units = Unused

\* What each part leaves alone: the variables of the other parts.
gbOthers ==
    <<clockvars, kinvars, intvars, fuelvars, regvars, cannonvars,
      finishvars, tankvars, unitvars>>
gbOthersUnused ==
    clockUnused /\ kinUnused /\ intUnused /\ fuelUnused /\ regUnused /\
    cannonUnused /\ finishUnused /\ tankUnused /\ unitUnused
clockOthers ==
    <<gbvars, kinvars, intvars, fuelvars, regvars, cannonvars, finishvars,
      tankvars, unitvars>>
clockOthersUnused ==
    gbUnused /\ kinUnused /\ intUnused /\ fuelUnused /\ regUnused /\
    cannonUnused /\ finishUnused /\ tankUnused /\ unitUnused
kinOthers ==
    <<gbvars, clockvars, intvars, fuelvars, regvars, cannonvars, finishvars,
      tankvars, unitvars>>
kinOthersUnused ==
    gbUnused /\ clockUnused /\ intUnused /\ fuelUnused /\ regUnused /\
    cannonUnused /\ finishUnused /\ tankUnused /\ unitUnused
intOthers ==
    <<gbvars, clockvars, kinvars, fuelvars, regvars, cannonvars, finishvars,
      tankvars, unitvars>>
intOthersUnused ==
    gbUnused /\ clockUnused /\ kinUnused /\ fuelUnused /\ regUnused /\
    cannonUnused /\ finishUnused /\ tankUnused /\ unitUnused
fuelOthers ==
    <<gbvars, clockvars, kinvars, intvars, regvars, cannonvars, finishvars,
      tankvars, unitvars>>
fuelOthersUnused ==
    gbUnused /\ clockUnused /\ kinUnused /\ intUnused /\ regUnused /\
    cannonUnused /\ finishUnused /\ tankUnused /\ unitUnused
regOthers ==
    <<gbvars, clockvars, kinvars, intvars, fuelvars, cannonvars, finishvars,
      tankvars, unitvars>>
regOthersUnused ==
    gbUnused /\ clockUnused /\ kinUnused /\ intUnused /\ fuelUnused /\
    cannonUnused /\ finishUnused /\ tankUnused /\ unitUnused
cannonOthers ==
    <<gbvars, clockvars, kinvars, intvars, fuelvars, regvars, finishvars,
      tankvars, unitvars>>
cannonOthersUnused ==
    gbUnused /\ clockUnused /\ kinUnused /\ intUnused /\ fuelUnused /\
    regUnused /\ finishUnused /\ tankUnused /\ unitUnused
finishOthers ==
    <<gbvars, clockvars, kinvars, intvars, fuelvars, regvars, cannonvars,
      tankvars, unitvars>>
finishOthersUnused ==
    gbUnused /\ clockUnused /\ kinUnused /\ intUnused /\ fuelUnused /\
    regUnused /\ cannonUnused /\ tankUnused /\ unitUnused
tankOthers ==
    <<gbvars, clockvars, kinvars, intvars, fuelvars, regvars, cannonvars,
      finishvars, unitvars>>
tankOthersUnused ==
    gbUnused /\ clockUnused /\ kinUnused /\ intUnused /\ fuelUnused /\
    regUnused /\ cannonUnused /\ finishUnused /\ unitUnused
unitOthers ==
    <<gbvars, clockvars, kinvars, intvars, fuelvars, regvars, cannonvars,
      finishvars, tankvars>>
unitOthersUnused ==
    gbUnused /\ clockUnused /\ kinUnused /\ intUnused /\ fuelUnused /\
    regUnused /\ cannonUnused /\ finishUnused /\ tankUnused

NumGuns == Len(battery.config.poses)

Init ==
    /\ \E config \in Configs : battery = new(config)
    /\ op = "new"
    /\ now = 0
    /\ ret = <<>>
    /\ shots = 0
    /\ last_shot = -1
    /\ last_wrap = -1
    /\ disciplined = TRUE
    /\ gbOthersUnused

\* A call of battery.update(t).
Update ==
    \E t \in Times :
        /\ battery' = update(battery, t)
        /\ op' = "update"
        /\ now' = t
        /\ disciplined' = (disciplined /\ t >= now)
        /\ UNCHANGED <<ret, shots, last_shot, last_wrap>>
        /\ UNCHANGED gbOthers

\* A call of battery.fired(t).
Fired ==
    \E t \in Times :
        /\ battery' = fired(battery, t).self
        /\ ret' = fired(battery, t).fire_pose
        /\ op' = "fired"
        /\ now' = t
        /\ shots' = (shots + 1) % NumGuns
        /\ last_shot' = t
        /\ last_wrap' = IF shots + 1 = NumGuns THEN t ELSE last_wrap
        /\ disciplined' = (disciplined /\ t >= now /\ battery.is_ready)
        /\ UNCHANGED gbOthers

\* A call of battery.set_trigger(value).
SetTrigger ==
    \E value \in BOOLEAN :
        /\ battery' = set_trigger(battery, value)
        /\ op' = "set_trigger"
        /\ UNCHANGED <<now, ret, shots, last_shot, last_wrap, disciplined>>
        /\ UNCHANGED gbOthers

Next == Update \/ Fired \/ SetTrigger

Spec == Init /\ [][Next]_vars

\* ---------------------------------------------------- Construct and Clock
\* Largest number of Construct::update calls explored.
MaxUpdates == 100

\* The clock's step, in hundredths of a second: test_things expects an elapsed
\* time of 0.03 after three updates.
ClockStep == 1

\* Clock::new: no time has elapsed.
Clock_new == [ elapsed |-> 0 ]

\* ClockSystem::update: every clock in the world advances by the step.
ClockSystem_update(w) ==
    [w EXCEPT !.clocks =
        [i \in DOMAIN w.clocks |->
            [w.clocks[i] EXCEPT !.elapsed = @ + ClockStep]]]

\* Construct::new registering the clock system twice.
Construct_systems_clock_twice ==
    << "ClockSystem", "ClockSystem", "KinematicsDifferentialDrive",
       "AccelerationVelocity", "VelocityPose", "RevolutePose", "CannonTrigger",
       "ProjectileFloor" >>

\* The systems Construct::new registers, in order.
Construct_systems ==
    << "ClockSystem", "KinematicsDifferentialDrive", "AccelerationVelocity",
       "VelocityPose", "RevolutePose", "CannonTrigger", "ProjectileFloor" >>

\* One system run on the world; of the registered systems only the clock
\* system writes the clock.
System_update(name, w) ==
    IF name = "ClockSystem" THEN ClockSystem_update(w) ELSE w

\* Systems::update: the systems run in registration order.
RECURSIVE Systems_update(_, _)
Systems_update(systems, w) ==
    IF systems = <<>> THEN w
    ELSE Systems_update(Tail(systems), System_update(Head(systems), w))

\* Construct::new: a world with one clock entity, and the systems.
Construct_new ==
    [ world |-> [ clocks |-> << Clock_new >> ], systems |-> Construct_systems ]

\* Construct::update
Construct_update(self) ==
    [self EXCEPT !.world = Systems_update(self.systems, self.world)]

ClockInit ==
    /\ construct = Construct_new
    /\ n_updates = 0
    /\ clockOthersUnused

\* A call of construct.update().
ConstructUpdate ==
    /\ n_updates < MaxUpdates
    /\ construct' = Construct_update(construct)
    /\ n_updates' = n_updates + 1
    /\ UNCHANGED clockOthers

ClockNext == ConstructUpdate

SpecClock == ClockInit /\ [][ClockNext]_vars

\* ------------------------------------------------- transforms and twists
\* cgmath::Matrix4<f32>, here with integer entries: m[row][column]. Angles are
\* counted in quarter turns, for which sine and cosine are integers.
Vec3(x, y, z) == <<x, y, z>>
Identity4 == << <<1, 0, 0, 0>>, <<0, 1, 0, 0>>, <<0, 0, 1, 0>>, <<0, 0, 0, 1>> >>
MatMul(a, b) ==
    [r \in 1..4 |-> [c \in 1..4 |->
        a[r][1] * b[1][c] + a[r][2] * b[2][c] + a[r][3] * b[3][c] + a[r][4] * b[4][c]]]
Cos(q) == << 1, 0, -1, 0 >>[(q % 4) + 1]
Sin(q) == << 0, 1, 0, -1 >>[(q % 4) + 1]
from_translation(t) ==
    << <<1, 0, 0, t[1]>>, <<0, 1, 0, t[2]>>, <<0, 0, 1, t[3]>>, <<0, 0, 0, 1>> >>
from_angle_x(q) ==
    << <<1, 0, 0, 0>>, <<0, Cos(q), 0 - Sin(q), 0>>, <<0, Sin(q), Cos(q), 0>>,
       <<0, 0, 0, 1>> >>
from_angle_y(q) ==
    << <<Cos(q), 0, Sin(q), 0>>, <<0, 1, 0, 0>>, <<0 - Sin(q), 0, Cos(q), 0>>,
       <<0, 0, 0, 1>> >>
from_angle_z(q) ==
    << <<Cos(q), 0 - Sin(q), 0, 0>>, <<Sin(q), Cos(q), 0, 0>>, <<0, 0, 1, 0>>,
       <<0, 0, 0, 1>> >>
\* Column c of a matrix (cgmath's m.x, m.y, m.z, m.w), as a 4-vector.
Col(m, c) == [r \in 1..4 |-> m[r][c]]

\* Rotation block applied to a 3-vector, and the cross product.
Rotate(m, u) ==
    [r \in 1..3 |-> m[r][1] * u[1] + m[r][2] * u[2] + m[r][3] * u[3]]
Cross(a, b) ==
    << a[2] * b[3] - a[3] * b[2], a[3] * b[1] - a[1] * b[3], a[1] * b[2] - a[2] * b[1] >>
VecAdd(a, b) == [i \in 1..3 |-> a[i] + b[i]]

\* Twist<f32>: linear part v and angular part w.
Twist(v, w) == [ v |-> v, w |-> w ]
\* Velocity::new().to_twist()
ZeroTwist == Twist(Vec3(0, 0, 0), Vec3(0, 0, 0))
\* Twist + Twist
TwistAdd(a, b) == Twist(VecAdd(a.v, b.v), VecAdd(a.w, b.w))
\* to_adjoint() * twist: the twist re-expressed through the transform m, with
\* rotation block R and translation p: (R v + p x (R w), R w).
Adjoint(m, tw) ==
    LET p == << m[1][4], m[2][4], m[3][4] >>
    IN  Twist(VecAdd(Rotate(m, tw.v), Cross(p, Rotate(m, tw.w))), Rotate(m, tw.w))

\* ------------------------------------------------------- world_velocity
\* Largest number of entities in a world.
MaxEntities == 3
Entities == 1..MaxEntities
\* Option: a component that the entity does not have, or the one it has.
None == <<>>
Some(x) == <<x>>

\* The components an entity of each kind carries: Pose, Velocity, PreTransform.
KindPose(kind) ==
    CASE kind = "body" -> Some(MatMul(from_translation(Vec3(1, 0, 0)), from_angle_z(1)))
      [] kind = "rot"  -> Some(from_angle_z(1))
      [] OTHER         -> None
KindVelocity(kind) ==
    CASE kind = "body" -> Some(Twist(Vec3(1, 0, 0), Vec3(0, 0, 1)))
      [] OTHER         -> None
KindPre(kind) ==
    CASE kind = "mount" -> Some(from_translation(Vec3(0, 1, 0)))
      [] OTHER          -> None
Kinds == {"bare", "body", "rot", "mount"}
\* Kinds explored on graphs without a cycle.
ChainKinds == {"bare", "body", "mount"}
\* Kinds whose transforms stay in a finite set however often they are composed.
RotationKinds == {"bare", "rot"}

\* The entity/component store, as far as world_velocity reads it.
World(parent, kind) ==
    [ parent   |-> parent,
      pose     |-> [e \in Entities |-> KindPose(kind[e])],
      velocity |-> [e \in Entities |-> KindVelocity(kind[e])],
      pre      |-> [e \in Entities |-> KindPre(kind[e])] ]

\* The parent links starting at e reach an entity without Parent.
RECURSIVE ReachesRoot(_, _, _)
ReachesRoot(parent, e, fuel) ==
    IF parent[e] = None THEN TRUE
    ELSE IF fuel = 0 THEN FALSE
    ELSE ReachesRoot(parent, parent[e][1], fuel - 1)
AcyclicFrom(parent, e) == ReachesRoot(parent, e, MaxEntities)
Acyclic(parent) == \A e \in Entities : AcyclicFrom(parent, e)

\* The worlds explored: every parent graph; with a cycle in it, only
\* components that keep the accumulated values in a finite set.
Parents == [Entities -> {None} \cup {Some(e) : e \in Entities}]
KindsOf == [Entities -> Kinds]
Explored(parent, kind) ==
    \A e \in Entities :
        kind[e] \in (IF Acyclic(parent) THEN ChainKinds ELSE RotationKinds)

\* world_velocity, lines 121-123: the state before the loop.
wv_start(entity) ==
    [ entity           |-> entity,
      current_id       |-> entity,
      current_velocity |-> ZeroTwist,
      current_pose     |-> Identity4,
      break            |-> FALSE ]

\* world_velocity following the Parent of the evaluated entity, not of the
\* current node.
wv_loop_parent_of_entity(w, st) ==
    LET id == st.current_id
        vel_t == IF w.velocity[id] # None THEN w.velocity[id][1] ELSE ZeroTwist
        pose_t == IF w.pose[id] # None THEN w.pose[id][1] ELSE Identity4
        pre_pose_t == IF w.pre[id] # None THEN w.pre[id][1] ELSE Identity4
        velocity1 == Adjoint(pose_t, TwistAdd(st.current_velocity, vel_t))
    IN  [ entity           |-> st.entity,
          current_id       |-> IF w.parent[id] # None THEN w.parent[st.entity][1] ELSE id,
          current_velocity |-> Adjoint(pre_pose_t, velocity1),
          current_pose     |-> MatMul(pre_pose_t, MatMul(pose_t, st.current_pose)),
          break            |-> (w.parent[id] = None) ]

\* world_velocity leaving the loop at a node without Pose.
wv_loop_break_without_pose(w, st) ==
    LET id == st.current_id
        vel_t == IF w.velocity[id] # None THEN w.velocity[id][1] ELSE ZeroTwist
        pose_t == IF w.pose[id] # None THEN w.pose[id][1] ELSE Identity4
        pre_pose_t == IF w.pre[id] # None THEN w.pre[id][1] ELSE Identity4
        velocity1 == Adjoint(pose_t, TwistAdd(st.current_velocity, vel_t))
    IN  [ entity           |-> st.entity,
          current_id       |-> IF w.parent[id] # None /\ w.pose[id] # None
                               THEN w.parent[id][1] ELSE id,
          current_velocity |-> Adjoint(pre_pose_t, velocity1),
          current_pose     |-> MatMul(pre_pose_t, MatMul(pose_t, st.current_pose)),
          break            |-> (w.parent[id] = None \/ w.pose[id] = None) ]

\* world_velocity, lines 128-173: one iteration of the loop.
wv_loop(w, st) ==
    LET id == st.current_id
        pose_t == IF w.pose[id] # None THEN w.pose[id][1] ELSE Identity4
        vel_t == IF w.velocity[id] # None THEN w.velocity[id][1] ELSE ZeroTwist
        pose1 == MatMul(pose_t, st.current_pose)
        combined_vel == TwistAdd(st.current_velocity, vel_t)
        velocity1 == Adjoint(pose_t, combined_vel)
        pre_pose_t == IF w.pre[id] # None THEN w.pre[id][1] ELSE Identity4
        pose2 == MatMul(pre_pose_t, pose1)
        velocity2 == Adjoint(pre_pose_t, velocity1)
    IN  [ entity           |-> st.entity,
          current_id       |-> IF w.parent[id] # None THEN w.parent[id][1] ELSE id,
          current_velocity |-> velocity2,
          current_pose     |-> pose2,
          break            |-> (w.parent[id] = None) ]

\* world_velocity, line 176: the value returned after the loop.
wv_return(st) == Adjoint(st.current_pose, st.current_velocity)

\* world_velocity as a function, for worlds in which the loop ends.
RECURSIVE wv_run(_, _)
wv_run(w, st) ==
    LET next == wv_loop(w, st)
    IN  IF next.break THEN wv_return(next) ELSE wv_run(w, next)
world_velocity(w, entity) == wv_run(w, wv_start(entity))

\* Longest record kept of the entities a call visited; longer than any chain
\* without a cycle.
VisitedCap == MaxEntities + 1

KinInit ==
    /\ \E parent \in Parents, kind \in KindsOf :
          /\ Explored(parent, kind)
          /\ world = World(parent, kind)
    /\ walk = [ pc |-> "idle", st |-> None, visited |-> <<>>, result |-> None,
                error |-> "none" ]
    /\ kinOthersUnused

\* world_velocity(world, entity) is called.
WvCall ==
    \E entity \in Entities :
        /\ walk.pc = "idle"
        /\ walk' = [walk EXCEPT !.pc = "loop", !.st = wv_start(entity)]
        /\ UNCHANGED world
        /\ UNCHANGED kinOthers

\* One iteration of its loop; on break the call returns.
WvLoop ==
    /\ walk.pc = "loop"
    /\ \E next \in {wv_loop(world, walk.st)} :
           walk' = [ pc      |-> IF next.break THEN "done" ELSE "loop",
                     st      |-> next,
                     visited |-> IF Len(walk.visited) < VisitedCap
                                 THEN Append(walk.visited, walk.st.current_id)
                                 ELSE walk.visited,
                     result  |-> IF next.break THEN Some(wv_return(next)) ELSE None,
                     error   |-> "none" ]
    /\ UNCHANGED world
    /\ UNCHANGED kinOthers

KinNext == WvCall \/ WvLoop

\* The loop runs on: nothing in the function suspends it.
SpecKin == KinInit /\ [][KinNext]_vars /\ WF_vars(WvLoop)

\* ---------------------------------------------------------------- integrate
\* Time is counted in steps of 0.01 s and length in units of 0.01 m, so that
\* the repository's test (v = 1.0, dt = 0.01, 100 steps, x = 1.0) is v = 1,
\* dt = 1, 100 steps, x = 100; angles are counted in quarter turns.
MaxSteps == 100
Dts == {1, 2}
Velocities ==
    { [ v |-> v, w |-> w ] :
        v \in { Vec3(1, 0, 0), Vec3(0, 1, 0), Vec3(1, 0, 1), Vec3(0, 0, 0) },
        w \in { Vec3(0, 0, 0), Vec3(0, 0, 1), Vec3(1, 0, 0) } }

\* Pose::new()
Pose_new == [ h |-> Identity4 ]

\* integrate with the translation not scaled by dt.
integrate_translation_unscaled(self, dt) ==
    MatMul(MatMul(MatMul(from_translation(Vec3(self.v[1], self.v[2], self.v[3])),
                         from_angle_x(self.w[1] * dt)),
                  from_angle_y(self.w[2] * dt)),
           from_angle_z(self.w[3] * dt))

\* Velocity::integrate
integrate(self, dt) ==
    MatMul(MatMul(MatMul(from_translation(Vec3(self.v[1] * dt, self.v[2] * dt,
                                               self.v[3] * dt)),
                         from_angle_x(self.w[1] * dt)),
                  from_angle_y(self.w[2] * dt)),
           from_angle_z(self.w[3] * dt))

\* Before the loop of test_velocity_integration: the start pose, the step and
\* the velocity.
IntInit ==
    /\ \E vel \in Velocities, dt \in Dts :
          integ = [ p |-> Pose_new, v |-> vel, dt |-> dt, n |-> 0 ]
    /\ intOthersUnused

\* One pass of the loop: p = (p.h * v.integrate(dt)).into()
IntegrateStep ==
    /\ integ.n < MaxSteps
    /\ integ' = [integ EXCEPT !.p = [ h |-> MatMul(integ.p.h, integrate(integ.v, integ.dt)) ],
                              !.n = integ.n + 1]
    /\ UNCHANGED intOthers

IntNext == IntegrateStep

SpecIntegrate == IntInit /\ [][IntNext]_vars

\* ------------------------------------------------------------- fuel budgets
\* Largest budget configured, largest amount of work a program does in one
\* invocation, and the number of per-tick updates followed.
MaxFuel == 3
MaxWork == 4
MaxInvocations == 2

\* WasmControlConfig, without its path: the two budgets and the reload flag.
WasmControlConfig(per_update, for_setup, reload) ==
    [ fuel_per_update |-> per_update, fuel_for_setup |-> for_setup, reload |-> reload ]
Budgets == {None} \cup { Some(n) : n \in 0..MaxFuel }
ControlConfigs ==
    { WasmControlConfig(u, s, r) : u \in Budgets, s \in Budgets, r \in BOOLEAN }

\* The per-update budget read from the setup field.
fuel_per_update_from_setup(config) == config.fuel_for_setup

\* The budget of each kind of invocation, as configured.
fuel_for_setup(config) == config.fuel_for_setup
fuel_per_update(config) == config.fuel_per_update

\* A spawned unit whose control program has not run yet.
Control_new(config) ==
    [ config    |-> config,
      phase     |-> "spawned",
      kind      |-> "none",
      fuel      |-> None,
      work      |-> 0,
      used      |-> 0,
      committed |-> <<>>,
      outcome   |-> None,
      updates   |-> 0 ]

\* An invocation begins: the countdown starts at the budget of its kind, and
\* the program is one that needs `work` units and writes a register in each.
Control_begin(self, kind, budget, work) ==
    [self EXCEPT !.phase = "running", !.kind = kind, !.fuel = budget, !.work = work,
                 !.used = 0, !.committed = <<>>, !.outcome = None]

\* The program does one unit of work; the host takes one unit of fuel, and
\* the register write of the unit is committed.
Control_consume(self) ==
    [self EXCEPT !.fuel = IF self.fuel = None THEN None ELSE Some(self.fuel[1] - 1),
                 !.used = self.used + 1,
                 !.committed = Append(self.committed, self.used + 1)]

\* The program returns.
Control_complete(self) ==
    [self EXCEPT !.phase = "ready", !.outcome = Some("Ok")]

\* The checkpoint finds the budget at zero: the invocation is aborted; with
\* reload the unit is set up again next tick, without it the unit gets no
\* further updates.
Control_exhaust(self) ==
    [self EXCEPT !.phase = IF self.config.reload THEN "spawned" ELSE "dead",
                 !.outcome = Some("FuelExhausted")]

FuelInit ==
    /\ \E config \in ControlConfigs : control = Control_new(config)
    /\ fuelOthersUnused

\* The one-time setup invocation of a program needing `work` units.
BeginSetup ==
    \E work \in 0..MaxWork :
        /\ control.phase = "spawned"
        /\ control' = Control_begin(control, "setup", fuel_for_setup(control.config), work)
        /\ UNCHANGED fuelOthers

\* The per-tick update invocation of a program needing `work` units.
BeginUpdate ==
    \E work \in 0..MaxWork :
        /\ control.phase = "ready"
        /\ control.updates < MaxInvocations
        /\ control' = [Control_begin(control, "update",
                                     fuel_per_update(control.config), work)
                         EXCEPT !.updates = control.updates + 1]
        /\ UNCHANGED fuelOthers

Consume ==
    /\ control.phase = "running"
    /\ control.used < control.work
    /\ control.fuel # Some(0)
    /\ control' = Control_consume(control)
    /\ UNCHANGED fuelOthers

Complete ==
    /\ control.phase = "running"
    /\ control.used = control.work
    /\ control' = Control_complete(control)
    /\ UNCHANGED fuelOthers

Exhaust ==
    /\ control.phase = "running"
    /\ control.used < control.work
    /\ control.fuel = Some(0)
    /\ control' = Control_exhaust(control)
    /\ UNCHANGED fuelOthers

FuelNext == BeginSetup \/ BeginUpdate \/ Consume \/ Complete \/ Exhaust

SpecFuel == FuelInit /\ [][FuelNext]_vars

\* ------------------------------------------------------------ register map
\* Module and register ids are opaque here; each is named after the module or
\* register it addresses.
MODULE_TANK_CLOCK == "clock"
MODULE_TANK_REVOLUTE_TURRET == "turret"
MODULE_TANK_CANNON == "cannon"
\* A module the tank does not carry.
MODULE_TANK_RADAR == "radar"
REG_CLOCK_ELAPSED == "elapsed"
REG_REVOLUTE_POSITION == "position"
REG_REVOLUTE_VELOCITY_CMD == "velocity_cmd"
REG_CANNON_TRIGGER == "trigger"
REG_CANNON_FIRING == "firing"
REG_CANNON_READY == "ready"
REG_CANNON_RELOAD_TIME == "reload_time"
ModuleIds ==
    { MODULE_TANK_CLOCK, MODULE_TANK_REVOLUTE_TURRET, MODULE_TANK_CANNON,
      MODULE_TANK_RADAR }
RegisterIds ==
    { REG_CLOCK_ELAPSED, REG_REVOLUTE_POSITION, REG_REVOLUTE_VELOCITY_CMD,
      REG_CANNON_TRIGGER, REG_CANNON_FIRING, REG_CANNON_READY,
      REG_CANNON_RELOAD_TIME }

\* Typed values: the value carries its type. f32 values are counted in tenths.
Bool(b) == [ t |-> "Bool", v |-> b ]
I32(i) == [ t |-> "I32", v |-> i ]
F32(x) == [ t |-> "F32", v |-> x ]
Values ==
    { Bool(b) : b \in BOOLEAN } \cup { I32(i) : i \in {0, 1} }
        \cup { F32(x) : x \in {0 - 1, 0, 3} }

\* A register: declared type (that of its value) and access, and its value.
Register(access, value) == [ access |-> access, value |-> value ]
\* The access of the registers a program commands: write-only or read-write.
CommandAccess == {"write_only", "read_write"}

\* The register map of a tank at spawn: what its modules expose is read-only,
\* what they accept has the access its adapter declares.
RegisterMap_new(trigger_access, cmd_access) ==
    [ modules |-> { MODULE_TANK_CLOCK, MODULE_TANK_REVOLUTE_TURRET, MODULE_TANK_CANNON },
      registers |->
        ( <<MODULE_TANK_CLOCK, REG_CLOCK_ELAPSED>> :> Register("read_only", F32(0))
          @@ <<MODULE_TANK_REVOLUTE_TURRET, REG_REVOLUTE_POSITION>> :>
                Register("read_only", F32(3))
          @@ <<MODULE_TANK_REVOLUTE_TURRET, REG_REVOLUTE_VELOCITY_CMD>> :>
                Register(cmd_access, F32(0))
          @@ <<MODULE_TANK_CANNON, REG_CANNON_TRIGGER>> :> Register(trigger_access, I32(0))
          @@ <<MODULE_TANK_CANNON, REG_CANNON_FIRING>> :> Register("read_only", Bool(FALSE))
          @@ <<MODULE_TANK_CANNON, REG_CANNON_READY>> :> Register("read_only", I32(1))
          @@ <<MODULE_TANK_CANNON, REG_CANNON_RELOAD_TIME>> :>
                Register("read_only", F32(3)) ) ]

Ok(x) == [ ok |-> TRUE, value |-> Some(x), error |-> "none" ]
Done == [ ok |-> TRUE, value |-> None, error |-> "none" ]
Err(e) == [ ok |-> FALSE, value |-> None, error |-> e ]

\* What stands in the way of addressing (module_id, register_id).
lookup(self, module_id, register_id) ==
    IF module_id \notin self.modules THEN "UnknownModule"
    ELSE IF <<module_id, register_id>> \notin DOMAIN self.registers THEN "UnknownRegister"
    ELSE "none"

\* read(module_id, register_id)
read(self, module_id, register_id) ==
    IF lookup(self, module_id, register_id) # "none"
    THEN Err(lookup(self, module_id, register_id))
    ELSE LET reg == self.registers[<<module_id, register_id>>]
         IN  IF reg.access = "write_only" THEN Err("AccessDenied") ELSE Ok(reg.value)

\* The error of write(module_id, register_id, value), "none" if it applies.
write_error(self, module_id, register_id, value) ==
    IF lookup(self, module_id, register_id) # "none"
    THEN lookup(self, module_id, register_id)
    ELSE LET reg == self.registers[<<module_id, register_id>>]
         IN  IF reg.access = "read_only" THEN "AccessDenied"
             ELSE IF reg.value.t # value.t THEN "TypeMismatch"
             ELSE "none"

\* write that checks the access and the type but stores nothing.
write_keeps_old_value(self, module_id, register_id, value) ==
    [ self |-> self,
      ret  |-> IF write_error(self, module_id, register_id, value) = "none"
               THEN Done
               ELSE Err(write_error(self, module_id, register_id, value)) ]

\* write that stores a value of any type.
write_unchecked_type(self, module_id, register_id, value) ==
    IF write_error(self, module_id, register_id, value) \in {"none", "TypeMismatch"}
    THEN [ self |-> [self EXCEPT !.registers[<<module_id, register_id>>].value = value],
           ret  |-> Done ]
    ELSE [ self |-> self,
           ret  |-> Err(write_error(self, module_id, register_id, value)) ]

\* write(module_id, register_id, value): the map afterwards and the result.
write(self, module_id, register_id, value) ==
    IF write_error(self, module_id, register_id, value) = "none"
    THEN [ self |-> [self EXCEPT !.registers[<<module_id, register_id>>].value = value],
           ret  |-> Done ]
    ELSE [ self |-> self,
           ret  |-> Err(write_error(self, module_id, register_id, value)) ]

\* The register map as built at spawn; no access made yet.
RegInit ==
    /\ \E trigger_access \in CommandAccess, cmd_access \in CommandAccess :
          regs = [ map  |-> RegisterMap_new(trigger_access, cmd_access),
                   last |-> [ op |-> "none", module_id |-> "none",
                              register_id |-> "none", value |-> None, ret |-> Done ] ]
    /\ regOthersUnused

\* A control program writes a register.
Write ==
    \E module_id \in ModuleIds, register_id \in RegisterIds, value \in Values :
        /\ regs' = [ map  |-> write(regs.map, module_id, register_id, value).self,
                     last |-> [ op |-> "write", module_id |-> module_id,
                                register_id |-> register_id, value |-> Some(value),
                                ret |-> write(regs.map, module_id, register_id, value).ret ] ]
        /\ UNCHANGED regOthers

\* A control program reads a register.
Read ==
    \E module_id \in ModuleIds, register_id \in RegisterIds :
        /\ regs' = [ map  |-> regs.map,
                     last |-> [ op |-> "read", module_id |-> module_id,
                                register_id |-> register_id, value |-> None,
                                ret |-> read(regs.map, module_id, register_id) ] ]
        /\ UNCHANGED regOthers

RegNext == Write \/ Read

SpecRegs == RegInit /\ [][RegNext]_vars

\* ------------------------------------------------------- battery recovery
\* After calls made at any times, the battery is only updated, once per
\* tick, at times that advance by one unit per tick. MaxTick is late enough
\* for every duration to have elapsed since any earlier call.
MaxTick == MaxTime + MaxDuration

\* A call of battery.fired(t), before the ticks.
RecFired ==
    /\ op # "tick"
    /\ Fired

\* A call of battery.update(t), before the ticks.
RecUpdate ==
    /\ op # "tick"
    /\ Update

\* A tick: time advances and battery.update(now) is called; no fired call.
Tick ==
    /\ now < MaxTick
    /\ battery' = update(battery, now + 1)
    /\ op' = "tick"
    /\ now' = now + 1
    /\ UNCHANGED <<ret, shots, last_shot, last_wrap, disciplined>>
    /\ UNCHANGED gbOthers

RecNext == RecFired \/ RecUpdate \/ Tick

\* Time keeps advancing: the next tick always comes.
SpecRecover == Init /\ [][RecNext]_vars /\ WF_vars(Tick)

\* ------------------------------------------------------------ fire effect
\* Largest number of projectiles the fire effect is followed for.
MaxProjectiles == 2
\* let muzzle_velocity = 10.0
muzzle_velocity == 10

\* Muzzle poses in world coordinates: a translation, then a yaw and a pitch
\* in quarter turns.
MuzzlePoses ==
    { MatMul(from_translation(Vec3(x, y, z)), MatMul(from_angle_z(yaw), from_angle_y(pitch))) :
        x \in {0, 1}, y \in {0, 1}, z \in {0, 1}, yaw \in 0..3, pitch \in {0, 1} }

\* Matrix4 * Vector4
MatVec(m, u) ==
    [r \in 1..4 |-> m[r][1] * u[1] + m[r][2] * u[2] + m[r][3] * u[3] + m[r][4] * u[4]]
\* Vector4::truncate
truncate(u) == << u[1], u[2], u[3] >>
\* Velocity::from_velocities
from_velocities(v, w) == [ v |-> v, w |-> w ]

\* cannon_function: the projectiles of the world after the effect added one
\* for a shot from muzzle_pose; the muzzle pose is kept with it.
cannon_function(projectiles, muzzle_pose) ==
    LET pose == from_translation(truncate(Col(muzzle_pose, 4)))
        zeroed == [muzzle_pose EXCEPT ![1][4] = 0, ![2][4] = 0]
        v == MatVec(zeroed, << muzzle_velocity, 0, 0, 1 >>)
        projectile_velocity == from_velocities(truncate(v), Vec3(0, 0, 0))
    IN  Append(projectiles,
               [ muzzle |-> muzzle_pose, pose |-> pose, velocity |-> projectile_velocity ])

\* A world without projectiles.
CannonInit ==
    /\ cannon = <<>>
    /\ cannonOthersUnused

\* The cannon fires from some muzzle pose: the effect is invoked.
CannonFire ==
    \E muzzle_pose \in MuzzlePoses :
        /\ Len(cannon) < MaxProjectiles
        /\ cannon' = cannon_function(cannon, muzzle_pose)
        /\ UNCHANGED cannonOthers

CannonNext == CannonFire

SpecCannon == CannonInit /\ [][CannonNext]_vars

\* ----------------------------------------------------------- match finished
\* Teams, MatchKingOfTheHill components and clock readings explored.
MaxTeams == 2
MaxKoth == 2
MaxElapsed == 2
TeamIds == 1..MaxTeams

\* What MatchLogicFinished reads of a MatchKingOfTheHill component.
MatchKingOfTheHill(is_finished, leader) == [ is_finished |-> is_finished, leader |-> leader ]
KothValues ==
    { MatchKingOfTheHill(f, l) : f \in BOOLEAN, l \in {None} \cup { Some(t) : t \in TeamIds } }
\* What it reads of a MatchTimeLimit component.
MatchTimeLimit(is_finished) == [ is_finished |-> is_finished ]

\* Position of the first finished component of a sequence, 0 if there is none.
first_finished(components) ==
    IF \E i \in DOMAIN components : components[i].is_finished
    THEN CHOOSE i \in DOMAIN components :
            /\ components[i].is_finished
            /\ \A j \in 1..(i - 1) : ~components[j].is_finished
    ELSE 0

\* The leaders collected by the king-of-the-hill loop: those of the
\* components visited before the loop ends or breaks.
leaders_of(koth) ==
    LET stop == first_finished(koth)
        seen == IF stop = 0 THEN DOMAIN koth ELSE 1..(stop - 1)
    IN  { koth[i].leader[1] : i \in { j \in seen : koth[j].leader # None } }

\* leaders.iter().next().copied(): some element of the set, None if empty.
Winners(w) ==
    IF leaders_of(w.koth) = {} THEN {None} ELSE { Some(t) : t \in leaders_of(w.koth) }

\* conclusion after both loops; None while nothing is finished.
conclusion_of(w) ==
    IF first_finished(w.time_limit) # 0 THEN Some("TimeLimit")
    ELSE IF first_finished(w.koth) # 0 THEN Some("Criteria")
    ELSE None

\* MatchReport
MatchReport(winner, conclusion, duration) ==
    [ winner |-> winner, conclusion |-> conclusion, duration |-> duration ]

\* update without the early return on an existing MatchFinished.
MatchLogicFinished_update_no_latch(w, winner) ==
    IF conclusion_of(w) = None THEN w
    ELSE [w EXCEPT !.n_entities = w.n_entities + 1,
                   !.match_finished =
                       Append(w.match_finished,
                              MatchReport(winner, conclusion_of(w)[1], w.clock))]

\* MatchLogicFinished::update; winner is the element the set iterator yields.
MatchLogicFinished_update(w, winner) ==
    IF w.match_finished # <<>> THEN w
    ELSE IF conclusion_of(w) = None THEN w
    ELSE [w EXCEPT !.n_entities = w.n_entities + 1,
                   !.match_finished =
                       Append(w.match_finished,
                              MatchReport(winner, conclusion_of(w)[1], w.clock))]

\* A world with its match components, nothing finished, no leader yet.
FinishInit ==
    /\ \E n \in 0..MaxKoth, limits \in 0..1 :
          finish = [ koth           |-> [i \in 1..n |-> MatchKingOfTheHill(FALSE, None)],
                     time_limit     |-> [i \in 1..limits |-> MatchTimeLimit(FALSE)],
                     clock          |-> 0,
                     n_entities     |-> n + limits + 1,
                     match_finished |-> <<>>,
                     last           |-> "new" ]
    /\ finishOthersUnused

\* The king-of-the-hill logic changes the leader or the finished state of a
\* component.
KothProgress ==
    \E i \in DOMAIN finish.koth, value \in KothValues :
        /\ finish' = [finish EXCEPT !.koth[i] = value, !.last = "koth"]
        /\ UNCHANGED finishOthers

\* The time limit is reached.
TimeLimitReached ==
    \E i \in DOMAIN finish.time_limit :
        /\ finish' = [finish EXCEPT !.time_limit[i] = MatchTimeLimit(TRUE),
                                    !.last = "time_limit"]
        /\ UNCHANGED finishOthers

\* The clock advances.
FinishClock ==
    /\ finish.clock < MaxElapsed
    /\ finish' = [finish EXCEPT !.clock = finish.clock + 1, !.last = "clock"]
    /\ UNCHANGED finishOthers

\* MatchLogicFinished::update runs.
FinishUpdate ==
    \E winner \in Winners(finish) :
        /\ finish' = [MatchLogicFinished_update(finish, winner) EXCEPT !.last = "update"]
        /\ UNCHANGED finishOthers

FinishNext == KothProgress \/ TimeLimitReached \/ FinishClock \/ FinishUpdate

SpecFinish == FinishInit /\ [][FinishNext]_vars

\* ------------------------------------------------------------- tank spawning
\* Calls of spawn_tank on one world, and the spawn coordinates explored.
MaxTanks == 2
MaxCoord == 1

\* TankSpawnConfig: x, y in whole units, yaw in quarter turns.
TankSpawnConfigs == [ x : 0..MaxCoord, y : 0..MaxCoord, yaw : 0..3 ]

\* The poses spawning sets, translations in tenths of a unit.
Pose_from_se2(x, y, yaw) ==
    [ h |-> MatMul(from_translation(Vec3(10 * x, 10 * y, 0)), from_angle_z(yaw)) ]
FlagPose == [ h |-> MatMul(from_translation(Vec3(-8, -4, 3)), from_angle_z(2)) ]

\* World::new(): no entities. Entity e is position e of each sequence; part
\* names the component that tells what the entity is.
World_new == [ parent |-> <<>>, part |-> <<>>, pose |-> <<>>, last |-> "World::new" ]

\* world.add_entity() followed by the add_component calls for one entity.
add_entity_with(w, part, pose, parent) ==
    [w EXCEPT !.parent = Append(w.parent, parent),
              !.part = Append(w.part, part),
              !.pose = Append(w.pose, pose)]

\* The id the next world.add_entity() returns.
next_entity(w) == Len(w.parent) + 1

\* spawn_tank with the turret's Parent set to the barrel.
spawn_tank_turret_on_barrel(w, config) ==
    LET vehicle_id == next_entity(w)
        turret_id == vehicle_id + 1
        barrel_id == vehicle_id + 2
        w1 == add_entity_with(w, "TankBody",
                              Some(Pose_from_se2(config.x, config.y, config.yaw)), None)
        w2 == add_entity_with(w1, "TankTurret", Some(Pose_new), Some(barrel_id))
        w3 == add_entity_with(w2, "TankBarrel", Some(Pose_new), Some(turret_id))
        w4 == add_entity_with(w3, "Cannon", None, Some(barrel_id))
        w5 == add_entity_with(w4, "Flag", Some(FlagPose), Some(vehicle_id))
    IN  [w5 EXCEPT !.last = "spawn_tank"]

\* spawn_tank
spawn_tank(w, config) ==
    LET vehicle_id == next_entity(w)
        turret_id == vehicle_id + 1
        barrel_id == vehicle_id + 2
        w1 == add_entity_with(w, "TankBody",
                              Some(Pose_from_se2(config.x, config.y, config.yaw)), None)
        w2 == add_entity_with(w1, "TankTurret", Some(Pose_new), Some(vehicle_id))
        w3 == add_entity_with(w2, "TankBarrel", Some(Pose_new), Some(turret_id))
        w4 == add_entity_with(w3, "Cannon", None, Some(barrel_id))
        w5 == add_entity_with(w4, "Flag", Some(FlagPose), Some(vehicle_id))
    IN  [w5 EXCEPT !.last = "spawn_tank"]

\* Construct::new: the world it builds.
Construct_new_world ==
    LET w0 == add_entity_with(World_new, "Clock", None, None)
        vehicle_id == next_entity(w0)
        turret_id == vehicle_id + 1
        barrel_id == vehicle_id + 2
        w1 == add_entity_with(w0, "TankBody", Some(Pose_new), None)
        w2 == add_entity_with(w1, "TankTurret", Some(Pose_new), Some(vehicle_id))
        w3 == add_entity_with(w2, "TankBarrel", Some(Pose_new), Some(turret_id))
        w4 == add_entity_with(w3, "Cannon", None, Some(barrel_id))
    IN  [w4 EXCEPT !.last = "Construct::new"]

\* Number of Parent links followed from e to an entity without Parent, or -1
\* if none is reached within n links.
RECURSIVE hops_to_root(_, _, _)
hops_to_root(w, e, n) ==
    IF w.parent[e] = None THEN 0
    ELSE IF n = 0 THEN -1
    ELSE LET rest == hops_to_root(w, w.parent[e][1], n - 1)
         IN  IF rest = -1 THEN -1 ELSE rest + 1

\* The entity without Parent reached from e (e itself if e has none).
RECURSIVE root_of(_, _, _)
root_of(w, e, n) ==
    IF w.parent[e] = None \/ n = 0 THEN e ELSE root_of(w, w.parent[e][1], n - 1)

TanksIn(w) == Cardinality({ e \in DOMAIN w.part : w.part[e] = "Flag" })

TankInit ==
    /\ tank = World_new
    /\ tankOthersUnused

\* Construct::new()
ConstructNew ==
    /\ tank = World_new
    /\ tank' = Construct_new_world
    /\ UNCHANGED tankOthers

\* spawn_tank(world, config)
SpawnTank ==
    /\ TanksIn(tank) < MaxTanks
    /\ \E config \in TankSpawnConfigs : tank' = spawn_tank(tank, config)
    /\ UNCHANGED tankOthers

TankNext == ConstructNew \/ SpawnTank

SpecTank == TankInit /\ [][TankNext]_vars

\* ------------------------------------------------------- control invocation
\* Units in the world, ticks followed, and the largest finite fuel budget.
MaxUnits == 2
MaxTicks == 2
MaxBudget == 3

MODULE_TANK_REVOLUTE_BARREL == "barrel"
REG_REVOLUTE_VELOCITY == "velocity"

\* What can be wrong with the register map a program is attached to.
Faults == {"none", "UnknownModule", "UnknownRegister", "AccessDenied", "TypeMismatch"}
UnitBudgets == {None, Some(0), Some(MaxBudget)}
\* Turret positions at spawn, in tenths of a radian.
TurretPositions == {3, 10}

\* The register map of a tank with turret, barrel, cannon and clock, and the
\* ways it can differ from what TankSwivelShoot expects: no barrel module, no
\* velocity register on the turret, a read-only trigger, a Bool trigger.
TankRegisterMap(fault, turret_pos) ==
    LET trigger == CASE fault = "AccessDenied" -> Register("read_only", I32(0))
                     [] fault = "TypeMismatch" -> Register("read_write", Bool(FALSE))
                     [] OTHER -> Register("read_write", I32(0))
        registers ==
            <<MODULE_TANK_CLOCK, REG_CLOCK_ELAPSED>> :> Register("read_only", F32(0))
            @@ <<MODULE_TANK_REVOLUTE_TURRET, REG_REVOLUTE_POSITION>> :>
                  Register("read_only", F32(turret_pos))
            @@ <<MODULE_TANK_REVOLUTE_TURRET, REG_REVOLUTE_VELOCITY>> :>
                  Register("read_only", F32(3))
            @@ <<MODULE_TANK_REVOLUTE_TURRET, REG_REVOLUTE_VELOCITY_CMD>> :>
                  Register("read_write", F32(0))
            @@ <<MODULE_TANK_REVOLUTE_BARREL, REG_REVOLUTE_POSITION>> :>
                  Register("read_only", F32(0))
            @@ <<MODULE_TANK_REVOLUTE_BARREL, REG_REVOLUTE_VELOCITY>> :>
                  Register("read_only", F32(0 - 1))
            @@ <<MODULE_TANK_REVOLUTE_BARREL, REG_REVOLUTE_VELOCITY_CMD>> :>
                  Register("read_write", F32(0))
            @@ <<MODULE_TANK_CANNON, REG_CANNON_TRIGGER>> :> trigger
    IN  [ modules |-> { MODULE_TANK_CLOCK, MODULE_TANK_REVOLUTE_TURRET, MODULE_TANK_CANNON }
                        \cup (IF fault = "UnknownModule" THEN {}
                              ELSE {MODULE_TANK_REVOLUTE_BARREL}),
          registers |->
            [ k \in DOMAIN registers \ (IF fault = "UnknownRegister"
                                        THEN {<<MODULE_TANK_REVOLUTE_TURRET,
                                                REG_REVOLUTE_VELOCITY>>}
                                        ELSE {}) |-> registers[k] ] ]

\* One access of a control program.
SetAccess(module_id, register_id, value) ==
    [ op |-> "write", module_id |-> module_id, register_id |-> register_id, value |-> value ]
GetAccess(module_id, register_id) ==
    [ op |-> "read", module_id |-> module_id, register_id |-> register_id, value |-> F32(0) ]

\* interface.get_f32(..).unwrap() where the value steers the program; a
\* failing read ends the program, so the value then stands for nothing.
get_f32(map, module_id, register_id) ==
    IF read(map, module_id, register_id).ok
    THEN read(map, module_id, register_id).value[1].v
    ELSE 0

\* TankSwivelShoot::update: the register accesses it makes, in order, when
\* each of them succeeds. Angles are in tenths of a radian.
TankSwivelShoot_accesses(map) ==
    LET clock == get_f32(map, MODULE_TANK_CLOCK, REG_CLOCK_ELAPSED)
        turret_pos == get_f32(map, MODULE_TANK_REVOLUTE_TURRET, REG_REVOLUTE_POSITION)
        turret_vel == get_f32(map, MODULE_TANK_REVOLUTE_TURRET, REG_REVOLUTE_VELOCITY)
        barrel_pos == get_f32(map, MODULE_TANK_REVOLUTE_BARREL, REG_REVOLUTE_POSITION)
        barrel_vel == get_f32(map, MODULE_TANK_REVOLUTE_BARREL, REG_REVOLUTE_VELOCITY)
        first == << SetAccess(MODULE_TANK_CANNON, REG_CANNON_TRIGGER, I32(1)),
                    GetAccess(MODULE_TANK_CLOCK, REG_CLOCK_ELAPSED) >>
        turret == << GetAccess(MODULE_TANK_REVOLUTE_TURRET, REG_REVOLUTE_POSITION) >>
                  \o (IF (turret_pos >= 32 /\ turret_pos <= 58)
                         \/ (turret_pos >= 4 /\ turret_pos <= 31)
                      THEN << GetAccess(MODULE_TANK_REVOLUTE_TURRET, REG_REVOLUTE_VELOCITY),
                              SetAccess(MODULE_TANK_REVOLUTE_TURRET,
                                        REG_REVOLUTE_VELOCITY_CMD, F32(0 - turret_vel)) >>
                      ELSE <<>>)
        barrel == << GetAccess(MODULE_TANK_REVOLUTE_BARREL, REG_REVOLUTE_POSITION) >>
                  \o (IF barrel_pos <= 58 \/ barrel_pos <= 3
                      THEN << GetAccess(MODULE_TANK_REVOLUTE_BARREL, REG_REVOLUTE_VELOCITY),
                              SetAccess(MODULE_TANK_REVOLUTE_BARREL,
                                        REG_REVOLUTE_VELOCITY_CMD, F32(0 - barrel_vel)) >>
                      ELSE <<>>)
    IN  IF clock < 1
        THEN first \o << SetAccess(MODULE_TANK_REVOLUTE_TURRET,
                                   REG_REVOLUTE_VELOCITY_CMD, F32(3)),
                         SetAccess(MODULE_TANK_REVOLUTE_BARREL,
                                   REG_REVOLUTE_VELOCITY_CMD, F32(0 - 1)) >>
        ELSE first \o turret \o barrel

\* The program runs against the map: each access takes one unit of fuel, the
\* first failing access is unwrapped and ends the program, and the budget
\* enforcer halts it when the fuel is used up.
RECURSIVE run_accesses(_, _, _)
run_accesses(map, todo, fuel) ==
    IF todo = <<>> THEN [ map |-> map, outcome |-> "Ok", error |-> "none" ]
    ELSE IF fuel = Some(0)
    THEN [ map |-> map, outcome |-> "halted", error |-> "FuelExhausted" ]
    ELSE LET a == Head(todo)
             r == IF a.op = "write"
                  THEN write(map, a.module_id, a.register_id, a.value)
                  ELSE [ self |-> map, ret |-> read(map, a.module_id, a.register_id) ]
         IN  IF ~r.ret.ok
             THEN [ map |-> r.self, outcome |-> "crashed", error |-> r.ret.error ]
             ELSE run_accesses(r.self, Tail(todo),
                               IF fuel = None THEN None ELSE Some(fuel[1] - 1))

\* TankSwivelShoot::update under the budget of its unit.
TankSwivelShoot_update(map, fuel) == run_accesses(map, TankSwivelShoot_accesses(map), fuel)

\* A unit: its register map, its budget, and what the host recorded of its
\* invocations.
Unit_new(fault, budget, turret_pos) ==
    [ map     |-> TankRegisterMap(fault, turret_pos),
      budget  |-> budget,
      invoked |-> 0,
      outcome |-> "none",
      error   |-> "none" ]

\* The host invokes the control program of a unit.
invoke(unit) ==
    LET r == TankSwivelShoot_update(unit.map, unit.budget)
    IN  [unit EXCEPT !.map = r.map, !.invoked = unit.invoked + 1,
                     !.outcome = r.outcome, !.error = r.error]

\* A pass that ends at the first unit whose invocation fails.
next_unit_unless_failed(pos, n, outcome) == IF outcome = "Ok" THEN pos + 1 ELSE n + 1

\* The pass over the units goes on to the next unit whatever the outcome.
next_unit(pos, n, outcome) == pos + 1

\* Module exposure before the control phase: the clock register shows the
\* elapsed time, a tenth of a second more each tick.
expose(unit) ==
    [unit EXCEPT !.map.registers[<<MODULE_TANK_CLOCK, REG_CLOCK_ELAPSED>>].value =
                    F32(unit.map.registers[<<MODULE_TANK_CLOCK, REG_CLOCK_ELAPSED>>].value.v + 1)]

UnitInit ==
    /\ \E faults \in [1..MaxUnits -> Faults],
          budgets \in [1..MaxUnits -> UnitBudgets],
          positions \in [1..MaxUnits -> TurretPositions] :
          units = [ unit |-> [i \in 1..MaxUnits |->
                                 Unit_new(faults[i], budgets[i], positions[i])],
                    pos  |-> 1,
                    tick |-> 1 ]
    /\ unitOthersUnused

\* The control phase reaches the next unit.
Invoke ==
    /\ units.pos <= MaxUnits
    /\ \E unit \in {invoke(units.unit[units.pos])} :
          units' = [units EXCEPT !.unit[units.pos] = unit,
                                 !.pos = next_unit(units.pos, MaxUnits, unit.outcome)]
    /\ UNCHANGED unitOthers

\* The tick completes and the next one begins.
EndTick ==
    /\ units.pos = MaxUnits + 1
    /\ units.tick < MaxTicks
    /\ units' = [ unit |-> [i \in 1..MaxUnits |-> expose(units.unit[i])],
                  pos  |-> 1,
                  tick |-> units.tick + 1 ]
    /\ UNCHANGED unitOthers

UnitNext == Invoke \/ EndTick

SpecUnits == UnitInit /\ [][UnitNext]_vars

\* ---------------------------------------------------------------- helpers
Cfg == battery.config
Slots == DOMAIN battery.status
\* Gun i is individually reloaded at time t.
Reloaded(i, t) == (t - battery.status[i].last_fire_time) >= Cfg.gun_reload
\* battery_reload has elapsed at time t since the last firing of the last gun.
BatteryReloadElapsed(t) == last_wrap < 0 \/ (t - last_wrap) >= Cfg.battery_reload
\* The 1-based slot that the last fired call fired.
LastFiredSlot == ((shots + NumGuns - 1) % NumGuns) + 1

\* ------------------------------------------------------------------- C1
\* C1: after update(now) every slot's is_ready equals
\* (now - slot.last_fire_time >= gun_reload), and the device is_ready holds
\* exactly when battery_reload has elapsed, inter_gun_duration has elapsed and
\* at least one slot is ready; all comparisons inclusive.
C1_UpdatePostcondition ==
    op = "update" =>
        /\ \A i \in Slots :
              battery.status[i].is_ready
                  = ((now - battery.status[i].last_fire_time) >= Cfg.gun_reload)
        /\ battery.is_ready
              = ( /\ (now - battery.last_in_battery_fire_time) >= Cfg.battery_reload
                  /\ (now - battery.last_gun_fire_time) >= Cfg.inter_gun_duration
                  /\ \E i \in Slots :
                        (now - battery.status[i].last_fire_time) >= Cfg.gun_reload )

\* Witness: an update exactly at the inclusive inter-gun bound after a shot
\* made the device ready while a slot is still reloading.
C1_Witness ==
    /\ op = "update"
    /\ last_shot >= 0
    /\ Cfg.inter_gun_duration > 0
    /\ now - battery.last_gun_fire_time = Cfg.inter_gun_duration
    /\ battery.is_ready
    /\ \E i \in Slots : ~battery.status[i].is_ready

\* ------------------------------------------------------------------- C2
\* C2: update(t) leaves current_index, every slot's last_fire_time,
\* last_gun_fire_time, last_in_battery_fire_time and is_triggered unchanged,
\* and a second update(t) at the same t changes nothing at all.
C2_UpdateFrameAndIdempotent ==
    [][ op' = "update" =>
          /\ battery'.config = battery.config
          /\ battery'.current_index = battery.current_index
          /\ battery'.last_gun_fire_time = battery.last_gun_fire_time
          /\ battery'.last_in_battery_fire_time = battery.last_in_battery_fire_time
          /\ battery'.is_triggered = battery.is_triggered
          /\ DOMAIN battery'.status = DOMAIN battery.status
          /\ \A i \in Slots :
                battery'.status[i].last_fire_time = battery.status[i].last_fire_time
          /\ update(battery', now') = battery' ]_vars

\* Witness: an update that acted after a firing, with the trigger set and the
\* index advanced, and that turned readiness flags off.
C2_Witness ==
    /\ op = "update"
    /\ battery.current_index > 0
    /\ battery.is_triggered
    /\ ~battery.is_ready
    /\ \E i \in Slots : ~battery.status[i].is_ready

\* ------------------------------------------------------------------- C3
\* C3: fired(now) with current_index = i stamps slot i's last_fire_time and
\* last_gun_fire_time with now; for i < N-1 the index becomes i+1 and
\* last_in_battery_fire_time is unchanged; for i = N-1 last_in_battery_fire_time
\* becomes now and the index 0; no other slot's last_fire_time changes.
C3_FiredStampsAndAdvances ==
    [][ op' = "fired" =>
          LET i == battery.current_index
              N == Len(battery.status)
          IN  /\ battery'.status[i + 1].last_fire_time = now'
              /\ battery'.last_gun_fire_time = now'
              /\ i < N - 1 =>
                    /\ battery'.current_index = i + 1
                    /\ battery'.last_in_battery_fire_time
                          = battery.last_in_battery_fire_time
              /\ i = N - 1 =>
                    /\ battery'.last_in_battery_fire_time = now'
                    /\ battery'.current_index = 0
              /\ \A j \in Slots :
                    j # i + 1 =>
                        battery'.status[j].last_fire_time
                            = battery.status[j].last_fire_time ]_vars

\* Witness: a wraparound firing after which the other slot keeps an older,
\* different fire time.
C3_Witness ==
    /\ op = "fired"
    /\ NumGuns = 2
    /\ battery.current_index = 0
    /\ battery.last_in_battery_fire_time = now
    /\ battery.status[2].last_fire_time = now
    /\ battery.status[1].last_fire_time >= 0
    /\ battery.status[1].last_fire_time # now

\* ------------------------------------------------------------------- C4
\* C4: the k-th fired call returns the configured pose of slot (k-1) mod N,
\* whatever times are passed and however update / set_trigger are interleaved.
C4_RoundRobinPose ==
    op = "fired" => ret = Cfg.poses[LastFiredSlot]

\* Witness: a firing in a later round (a wraparound happened before), made on
\* the second slot with a time going backwards.
C4_Witness ==
    /\ op = "fired"
    /\ NumGuns = 2
    /\ shots = 0
    /\ ret = PoseOf(2)
    /\ last_wrap = now
    /\ ~disciplined
    /\ battery.status[1].last_fire_time > now

\* ------------------------------------------------------------------- C5
\* C5: for every configuration with at least one slot, right after new
\* is_ready() is true, current_index is 0 and the trigger is false, and
\* is_ready() is still true after the first update(now), now >= 0, made before
\* any fired call.
C5_CreatedReady ==
    /\ [](op = "new" =>
            /\ battery.is_ready
            /\ battery.current_index = 0
            /\ ~battery.is_triggered)
    /\ [][ op = "new" /\ op' = "update" => battery'.is_ready ]_vars

\* ------------------------------------------------------------------- C6
\* C6: with inter_gun_duration > 0, is_ready() is false right after any
\* fired(t) and after every update(now) with t <= now < t + inter_gun_duration;
\* hence a caller that fires only when is_ready() is true (time not
\* decreasing) never fires two shots less than inter_gun_duration apart.
C6_InterGunSpacing ==
    /\ [](Cfg.inter_gun_duration > 0 =>
            /\ op = "fired" => ~battery.is_ready
            /\ ( /\ op = "update"
                 /\ last_shot >= 0
                 /\ last_shot <= now
                 /\ now < last_shot + Cfg.inter_gun_duration )
               => ~battery.is_ready)
    /\ [][ (op' = "fired" /\ disciplined' /\ last_shot >= 0)
              => now' - last_shot >= Cfg.inter_gun_duration ]_vars

\* Witness: a gated caller whose update falls inside the inter-gun window, in
\* which only the inter-gun spacing keeps the device from being ready.
C6_Witness ==
    /\ op = "update"
    /\ disciplined
    /\ Cfg.inter_gun_duration > 1
    /\ last_shot >= 0
    /\ now > last_shot
    /\ now < last_shot + Cfg.inter_gun_duration
    /\ BatteryReloadElapsed(now)
    /\ \E i \in Slots : Reloaded(i, now)
    /\ ~battery.is_ready

\* ------------------------------------------------------------------- C7
\* C7: after a fired(t) that did not wrap around, update(t + inter_gun_duration)
\* makes is_ready() true, provided battery_reload has elapsed since the last
\* wraparound firing and some slot is individually reloaded at that time.
C7_ReadyAtInterGunBound ==
    ( /\ op = "update"
      /\ last_shot >= 0
      /\ shots # 0
      /\ now = last_shot + Cfg.inter_gun_duration
      /\ BatteryReloadElapsed(now)
      /\ \E i \in Slots : Reloaded(i, now) )
    => battery.is_ready

\* Witness: such an update exactly inter_gun_duration > 0 after the shot.
C7_Witness ==
    /\ op = "update"
    /\ last_shot >= 0
    /\ shots # 0
    /\ Cfg.inter_gun_duration > 0
    /\ now = last_shot + Cfg.inter_gun_duration
    /\ ~Reloaded(LastFiredSlot, now)
    /\ battery.is_ready

\* ------------------------------------------------------------------- C8
\* C8: after the last slot fires at t with battery_reload > 0, current_index
\* is 0 and is_ready() is false right after fired and after every update(now)
\* with t <= now < t + battery_reload; if also gun_reload <= battery_reload and
\* inter_gun_duration <= battery_reload, update(t + battery_reload) makes
\* is_ready() true with current_index still 0.
C8_BatteryReloadWindow ==
    (Cfg.battery_reload > 0 /\ last_shot >= 0 /\ shots = 0) =>
        /\ op = "fired" => (battery.current_index = 0 /\ ~battery.is_ready)
        /\ ( /\ op = "update"
             /\ last_shot <= now
             /\ now < last_shot + Cfg.battery_reload )
           => (battery.current_index = 0 /\ ~battery.is_ready)
        /\ ( /\ op = "update"
             /\ now = last_shot + Cfg.battery_reload
             /\ Cfg.gun_reload <= Cfg.battery_reload
             /\ Cfg.inter_gun_duration <= Cfg.battery_reload )
           => (battery.current_index = 0 /\ battery.is_ready)

\* Witness: a two-gun battery back at the start, ready again exactly
\* battery_reload after its last gun fired.
C8_Witness ==
    /\ op = "update"
    /\ NumGuns = 2
    /\ shots = 0
    /\ last_shot >= 0
    /\ Cfg.battery_reload > 1
    /\ Cfg.gun_reload <= Cfg.battery_reload
    /\ Cfg.inter_gun_duration <= Cfg.battery_reload
    /\ now = last_shot + Cfg.battery_reload
    /\ battery.current_index = 0
    /\ battery.is_ready

\* ------------------------------------------------------------------- C9
\* C9: with inter_gun_duration = 0, right after fired(t) on a slot that is not
\* the last one is_ready() is true without any update, provided battery_reload
\* had elapsed and some other slot is individually reloaded; the firing of the
\* last slot makes is_ready() false when battery_reload > 0.
C9_ZeroInterGunDelay ==
    (Cfg.inter_gun_duration = 0 /\ op = "fired") =>
        /\ ( /\ shots # 0
             /\ BatteryReloadElapsed(now)
             /\ \E j \in Slots : j # LastFiredSlot /\ Reloaded(j, now) )
           => battery.is_ready
        /\ (shots = 0 /\ Cfg.battery_reload > 0) => ~battery.is_ready

\* Witness: still ready right after firing the first gun, whose own reload
\* has only just started.
C9_Witness ==
    /\ op = "fired"
    /\ Cfg.inter_gun_duration = 0
    /\ Cfg.gun_reload > 0
    /\ Cfg.battery_reload > 0
    /\ shots # 0
    /\ ~battery.status[LastFiredSlot].is_ready
    /\ battery.is_ready

\* ------------------------------------------------------------------ C10
\* C10: if time never decreases and fired is only called when is_ready() is
\* true, then whenever is_ready() is true the slot at current_index is itself
\* reloaded and battery_reload has elapsed, so no slot is fired less than
\* gun_reload after its own previous firing.
C10_NextSlotReloaded ==
    /\ []((disciplined /\ battery.is_ready) =>
            /\ Reloaded(battery.current_index + 1, now)
            /\ (now - battery.last_in_battery_fire_time) >= Cfg.battery_reload)
    /\ [][ (op' = "fired" /\ disciplined') =>
              (now' - battery.status[battery.current_index + 1].last_fire_time)
                  >= Cfg.gun_reload ]_vars

\* Witness: a gated caller in a later round, ready to fire a gun that was
\* fired before while another gun is still reloading.
C10_Witness ==
    /\ disciplined
    /\ battery.is_ready
    /\ last_wrap >= 0
    /\ Cfg.gun_reload > 0
    /\ battery.status[battery.current_index + 1].last_fire_time >= 0
    /\ \E j \in Slots : ~Reloaded(j, now)


\* ------------------------------------------------------------------ C11
\* C11: fired(now) called while is_ready() is false performs the same state
\* update as when ready: it stamps the current slot and last_gun_fire_time with
\* now, advances or wraps current_index and returns that slot's pose; the
\* resulting battery is the one the same call yields on a ready battery.
C11_FiredNotGated ==
    [][ (op' = "fired" /\ ~battery.is_ready) =>
          LET i == battery.current_index
              N == Len(battery.status)
          IN  /\ battery'.status[i + 1].last_fire_time = now'
              /\ battery'.last_gun_fire_time = now'
              /\ battery'.current_index = (IF i = N - 1 THEN 0 ELSE i + 1)
              /\ i = N - 1 => battery'.last_in_battery_fire_time = now'
              /\ ret' = Cfg.poses[i + 1]
              /\ battery' = fired([battery EXCEPT !.is_ready = TRUE], now').self ]_vars

\* Witness: two guns fired at the same, latest possible time although
\* inter_gun_duration > 0, so the second call found the device not ready.
C11_Witness ==
    /\ op = "fired"
    /\ NumGuns = 2
    /\ Cfg.inter_gun_duration > 0
    /\ now = MaxTime
    /\ shots = 0
    /\ battery.status[1].last_fire_time = now
    /\ battery.status[2].last_fire_time = now
    /\ ret = PoseOf(2)

\* ------------------------------------------------------------------ C12
\* C12: after n calls of Construct::update on a new Construct the single
\* Clock's elapsed time is n times the step (0.03 after 3 updates), and the
\* elapsed time never decreases between updates.
C12_ClockFixedStep ==
    /\ [](/\ Len(construct.world.clocks) = 1
          /\ construct.world.clocks[1].elapsed = n_updates * ClockStep
          /\ n_updates = 3 => construct.world.clocks[1].elapsed = 3)
    /\ [][ construct'.world.clocks[1].elapsed
              >= construct.world.clocks[1].elapsed ]_vars

\* Witness: the state of test_things, three updates after construction.
C12_Witness ==
    /\ n_updates = 3
    /\ construct.world.clocks[1].elapsed = 3

\* ------------------------------------------------------------------ C13
\* C13: on a parent graph without cycles the walk of world_velocity ends; it
\* visits the entity and each of its ancestors exactly once, in order from the
\* entity towards the root, and stops at the first node without Parent.
\* Termination is by variant: every iteration processes an entity not
\* processed before, so a call still in its loop has fewer iterations behind
\* it than there are entities, and the iteration is never blocked.
C13_WalkVisitsChainOnce ==
    (walk.pc # "idle" /\ AcyclicFrom(world.parent, walk.st.entity)) =>
        LET visited == walk.visited
        IN  /\ \A i, j \in DOMAIN visited : visited[i] = visited[j] => i = j
            /\ visited # <<>> => visited[1] = walk.st.entity
            /\ \A i \in DOMAIN visited :
                  i > 1 => Some(visited[i]) = world.parent[visited[i - 1]]
            /\ \A i \in DOMAIN visited :
                  i < Len(visited) => world.parent[visited[i]] # None
            /\ walk.pc = "loop" =>
                  /\ Len(visited) < Cardinality(Entities)
                  /\ \A i \in DOMAIN visited : visited[i] # walk.st.current_id
            /\ walk.pc = "done" =>
                  /\ visited # <<>>
                  /\ world.parent[visited[Len(visited)]] = None

\* Witness: a finished walk over a chain of three entities.
C13_Witness ==
    /\ walk.pc = "done"
    /\ Len(walk.visited) = 3
    /\ walk.visited[1] = walk.st.entity
    /\ world.parent[walk.visited[3]] = None

\* ------------------------------------------------------------------ C14
\* C14: when the parent graph reachable from the evaluated entity contains a
\* cycle, the evaluator stops after a bounded number of steps and reports
\* InvalidChain for that entity.
C14_CycleReported ==
    (walk.pc = "loop" /\ ~AcyclicFrom(world.parent, walk.st.entity))
        ~> (walk.pc = "done" /\ walk.error = "InvalidChain")

\* ------------------------------------------------------------------ C15
\* An entity with none of Pose, Velocity and PreTransform.
Bare(w, e) == w.pose[e] = None /\ w.velocity[e] = None /\ w.pre[e] = None
\* The world without node b in its chains: the children of b hang on the
\* parent of b.
Splice(w, b) ==
    [w EXCEPT !.parent =
        [e \in Entities |-> IF w.parent[e] = Some(b) THEN w.parent[b] ELSE w.parent[e]]]

\* C15: a missing Pose, Velocity or PreTransform counts as identity (zero
\* twist): a chain node above the evaluated entity that has only a Parent
\* leaves the world velocity what it is without that node, and an entity
\* with no component at all has the zero twist.
C15_MissingIsIdentity ==
    (walk.pc = "done" /\ AcyclicFrom(world.parent, walk.st.entity)) =>
        /\ \A i \in DOMAIN walk.visited :
              LET b == walk.visited[i]
              IN  (i > 1 /\ Bare(world, b) /\ world.parent[b] # None) =>
                      walk.result = Some(world_velocity(Splice(world, b), walk.st.entity))
        /\ (Bare(world, walk.st.entity) /\ world.parent[walk.st.entity] = None) =>
              walk.result = Some(ZeroTwist)

\* Witness: a finished call whose chain is a moving body, a node with only a
\* Parent, and a posed root, with a non-zero result.
C15_Witness ==
    /\ walk.pc = "done"
    /\ Len(walk.visited) = 3
    /\ world.velocity[walk.visited[1]] # None
    /\ Bare(world, walk.visited[2])
    /\ world.parent[walk.visited[2]] = Some(walk.visited[3])
    /\ world.pose[walk.visited[3]] # None
    /\ walk.result # Some(ZeroTwist)
    /\ walk.result = Some(world_velocity(Splice(world, walk.visited[2]), walk.visited[1]))

\* ------------------------------------------------------------------ C17
\* C17: integrating a twist with zero angular rate is exact and linear: n
\* steps of integrate(dt) composed onto the identity pose give the identity
\* rotation and the translation n * dt * v; for v = (1, 0, 0), dt = 0.01 and
\* n = 100 the x translation is 1.0 (100 units of 0.01).
C17_LinearIntegration ==
    integ.v.w = Vec3(0, 0, 0) =>
        /\ \A r, c \in 1..3 : integ.p.h[r][c] = Identity4[r][c]
        /\ integ.p.h[4] = <<0, 0, 0, 1>>
        /\ \A r \in 1..3 : integ.p.h[r][4] = integ.n * integ.dt * integ.v.v[r]
        /\ (integ.v.v = Vec3(1, 0, 0) /\ integ.dt = 1 /\ integ.n = 100) =>
              integ.p.h[1][4] = 100

\* Witness: the repository's test after its 100 steps.
C17_Witness ==
    /\ integ.v = [ v |-> Vec3(1, 0, 0), w |-> Vec3(0, 0, 0) ]
    /\ integ.dt = 1
    /\ integ.n = 100
    /\ Col(integ.p.h, 4) = <<100, 0, 0, 1>>

\* ------------------------------------------------------------------ C18
\* The budget the configuration gives the invocation that just ended.
ConfiguredBudget ==
    IF control.kind = "setup" THEN control.config.fuel_for_setup
    ELSE control.config.fuel_per_update

\* C18: an invocation configured with budget N whose program needs more than
\* N units is halted and reports FuelExhausted; one needing at most N units
\* completes and all its register writes are observable afterwards; the
\* budget of a setup is fuel_for_setup and that of an update fuel_per_update,
\* whatever the other budget is and whatever earlier invocations used.
C18_FuelEnforced ==
    (control.outcome # None /\ ConfiguredBudget # None) =>
        LET N == ConfiguredBudget[1]
        IN  /\ control.work > N =>
                  /\ control.outcome = Some("FuelExhausted")
                  /\ control.used = N
                  /\ control.phase # "running"
            /\ control.work <= N =>
                  /\ control.outcome = Some("Ok")
                  /\ control.phase = "ready"
                  /\ control.committed = [i \in 1..control.work |-> i]

\* Witness: an update that used its whole budget of three units and
\* completed, in a unit whose setup budget is one unit.
C18_Witness ==
    /\ control.kind = "update"
    /\ control.outcome = Some("Ok")
    /\ control.config.fuel_per_update = Some(3)
    /\ control.config.fuel_for_setup = Some(1)
    /\ control.work = 3
    /\ control.committed = <<1, 2, 3>>

\* ------------------------------------------------------------------ C19
\* The register addressed by the last access, when there is one.
Addressed(map) == map.registers[<<regs'.last.module_id, regs'.last.register_id>>]

\* C19: a write of a value of the declared type to a read-write register
\* succeeds, a read of the same register right after it returns that value,
\* and the write changes no other register.
C19_WriteReadRoundTrip ==
    [][ ( /\ regs'.last.op = "write"
          /\ lookup(regs.map, regs'.last.module_id, regs'.last.register_id) = "none"
          /\ Addressed(regs.map).access = "read_write"
          /\ Addressed(regs.map).value.t = regs'.last.value[1].t )
        => /\ regs'.last.ret = Done
           /\ read(regs'.map, regs'.last.module_id, regs'.last.register_id)
                = Ok(regs'.last.value[1])
           /\ regs'.map.modules = regs.map.modules
           /\ DOMAIN regs'.map.registers = DOMAIN regs.map.registers
           /\ \A k \in DOMAIN regs.map.registers :
                 k # <<regs'.last.module_id, regs'.last.register_id>> =>
                     regs'.map.registers[k] = regs.map.registers[k]
           /\ Addressed(regs'.map).access = "read_write" ]_vars

\* Witness: the turret's velocity command, read-write, was written 0.3 over
\* its 0.0, and reads back 0.3; the trigger had been set before.
C19_Witness ==
    /\ regs.last.op = "write"
    /\ regs.last.module_id = MODULE_TANK_REVOLUTE_TURRET
    /\ regs.last.register_id = REG_REVOLUTE_VELOCITY_CMD
    /\ regs.last.value = Some(F32(3))
    /\ regs.last.ret = Done
    /\ regs.map.registers[<<MODULE_TANK_REVOLUTE_TURRET, REG_REVOLUTE_VELOCITY_CMD>>].access
         = "read_write"
    /\ read(regs.map, MODULE_TANK_REVOLUTE_TURRET, REG_REVOLUTE_VELOCITY_CMD) = Ok(F32(3))
    /\ regs.map.registers[<<MODULE_TANK_CANNON, REG_CANNON_TRIGGER>>].value = I32(1)

\* ------------------------------------------------------------------ C20
\* C20: a failing register access leaves the state unchanged. A write of a
\* value whose type is not the declared one returns TypeMismatch and leaves
\* the register and every other register as they were; a read of a
\* write-only register returns AccessDenied; an access naming an absent
\* module or register returns UnknownModule or UnknownRegister; a write
\* applies as a whole or not at all.
C20_FailedAccessChangesNothing ==
    [][ LET m == regs'.last.module_id
            r == regs'.last.register_id
            found == lookup(regs.map, m, r) = "none"
        IN  /\ regs'.last.op \in {"read", "write"}
            /\ ~regs'.last.ret.ok => regs'.map = regs.map
            /\ regs'.last.op = "read" => regs'.map = regs.map
            /\ m \notin regs.map.modules => regs'.last.ret = Err("UnknownModule")
            /\ (m \in regs.map.modules /\ <<m, r>> \notin DOMAIN regs.map.registers) =>
                  regs'.last.ret = Err("UnknownRegister")
            /\ (found /\ regs'.last.op = "read"
                  /\ Addressed(regs.map).access = "write_only") =>
                  regs'.last.ret = Err("AccessDenied")
            /\ (found /\ regs'.last.op = "write"
                  /\ Addressed(regs.map).access # "read_only"
                  /\ Addressed(regs.map).value.t # regs'.last.value[1].t) =>
                  /\ regs'.last.ret = Err("TypeMismatch")
                  /\ regs'.map = regs.map
            /\ (regs'.last.op = "write" /\ regs'.last.ret.ok) =>
                  regs'.map = [regs.map EXCEPT
                                 !.registers[<<m, r>>].value = regs'.last.value[1]]
      ]_vars

\* Witness: a float was written to the set trigger, an i32 register: the
\* write returned TypeMismatch and the trigger still holds 1.
C20_Witness ==
    /\ regs.last.op = "write"
    /\ regs.last.module_id = MODULE_TANK_CANNON
    /\ regs.last.register_id = REG_CANNON_TRIGGER
    /\ regs.last.value = Some(F32(3))
    /\ regs.last.ret = Err("TypeMismatch")
    /\ regs.map.registers[<<MODULE_TANK_CANNON, REG_CANNON_TRIGGER>>].value = I32(1)
    /\ regs.map.registers[<<MODULE_TANK_REVOLUTE_TURRET, REG_REVOLUTE_VELOCITY_CMD>>].value
         = F32(0 - 1)

\* ------------------------------------------------------------------ C22
\* C22: fired(now) refreshes readiness before it returns: right after it the
\* device flag and every slot flag are what update(now) computes from the
\* timestamps fired left, so an update(now) made next changes nothing; the
\* slot just fired is ready exactly when gun_reload <= 0.
C22_FiredRefreshesReadiness ==
    op = "fired" =>
        /\ battery = update(battery, now)
        /\ \A i \in Slots : battery.status[i].is_ready = Reloaded(i, now)
        /\ battery.status[LastFiredSlot].last_fire_time = now
        /\ battery.status[LastFiredSlot].is_ready = (Cfg.gun_reload <= 0)
        /\ battery.is_ready =
              /\ (now - battery.last_in_battery_fire_time) >= Cfg.battery_reload
              /\ (now - battery.last_gun_fire_time) >= Cfg.inter_gun_duration
              /\ \E i \in Slots : Reloaded(i, now)

\* Witness: with gun_reload = 0 the slot just fired is ready again at once,
\* while another configuration value keeps the device itself not ready.
C22_Witness ==
    /\ op = "fired"
    /\ NumGuns = 2
    /\ Cfg.gun_reload = 0
    /\ Cfg.inter_gun_duration > 0
    /\ battery.status[LastFiredSlot].is_ready
    /\ ~battery.is_ready
    /\ now > 0

\* ------------------------------------------------------------------ C27
\* C27: for a battery of N >= 1 slots, after any sequence of update, fired
\* and set_trigger calls with any times, 0 <= current_index < N and the slot
\* status and pose vectors both still have length N, so fired indexes inside
\* them.
C27_IndexInRange ==
    /\ NumGuns >= 1
    /\ battery.current_index \in 0..(NumGuns - 1)
    /\ Len(battery.status) = NumGuns
    /\ Len(battery.config.poses) = NumGuns
    /\ DOMAIN battery.status = 1..NumGuns
    /\ (battery.current_index + 1) \in DOMAIN battery.status
    /\ (battery.current_index + 1) \in DOMAIN battery.config.poses

\* Witness: a battery of two slots that fired its last slot at a time before
\* that of the call preceding it, and is back at index 0.
C27_Witness ==
    /\ op = "fired"
    /\ NumGuns = 2
    /\ battery.current_index = 0
    /\ last_wrap = now
    /\ battery.status[1].last_fire_time > now
    /\ ~disciplined
    /\ battery.is_triggered

\* ------------------------------------------------------------------ C28
\* C28: the trigger is separate from the firing schedule: set_trigger(value)
\* changes is_triggered, to value, and nothing else of the battery; update
\* and fired never change is_triggered, so a trigger that was set stays set
\* across firings until set_trigger(false).
C28_TriggerSeparate ==
    [][ /\ op' = "set_trigger" =>
              /\ battery' = [battery EXCEPT !.is_triggered = battery'.is_triggered]
              /\ battery'.is_ready = battery.is_ready
              /\ battery'.current_index = battery.current_index
              /\ battery'.status = battery.status
              /\ battery'.last_gun_fire_time = battery.last_gun_fire_time
              /\ battery'.last_in_battery_fire_time = battery.last_in_battery_fire_time
        /\ op' \in {"update", "fired"} =>
              battery'.is_triggered = battery.is_triggered
        /\ battery'.is_triggered # battery.is_triggered => op' = "set_trigger"
      ]_vars

\* Witness: the trigger is still set after the battery of two slots fired
\* both of them, the second firing being the last call.
C28_Witness ==
    /\ op = "fired"
    /\ battery.is_triggered
    /\ NumGuns = 2
    /\ last_wrap = now
    /\ battery.status[1].last_fire_time >= 0
    /\ battery.status[1].last_fire_time < now

\* ------------------------------------------------------------------ C29
\* C29: the battery always recovers: after any sequence of fired calls, with
\* time advancing and update(now) called every tick and no further fired
\* call, is_ready() eventually becomes true, and from then on stays true on
\* every later update.
C29_BatteryRecovers ==
    /\ (op = "tick") ~> (op = "tick" /\ battery.is_ready)
    /\ [][ (op = "tick" /\ op' = "tick" /\ battery.is_ready) => battery'.is_ready ]_vars

\* Witness: after ticks the battery of two slots is ready again although its
\* last slot was fired at the latest time a call can be made with.
C29_Witness ==
    /\ op = "tick"
    /\ battery.is_ready
    /\ NumGuns = 2
    /\ last_wrap = MaxTime
    /\ Cfg.battery_reload = MaxDuration
    /\ now = MaxTick

\* ------------------------------------------------------------------ C23
\* C23: the world velocity is the sum over the chain of each node's own
\* twist mapped exactly once by the adjoint of that node's accumulated pose;
\* in particular an entity with no Parent and no PreTransform, with Pose P
\* and Velocity V, has the world velocity adjoint(P) applied once to V, and a
\* chain whose nodes all have zero Velocity has the zero twist.
C23_TwistMappedOnce ==
    (walk.pc = "done" /\ AcyclicFrom(world.parent, walk.st.entity)) =>
        LET e == walk.st.entity
        IN  /\ ( /\ world.parent[e] = None
                 /\ world.pre[e] = None
                 /\ world.pose[e] # None
                 /\ world.velocity[e] # None )
                  => walk.result = Some(Adjoint(world.pose[e][1], world.velocity[e][1]))
            /\ (\A i \in DOMAIN walk.visited : world.velocity[walk.visited[i]] = None)
                  => walk.result = Some(ZeroTwist)

\* ------------------------------------------------------------------ C24
\* C24: the projectile the fire effect spawns has the linear velocity of the
\* muzzle pose's rotation applied to (muzzle_velocity, 0, 0), whatever the
\* muzzle's position in x, y and z; its angular velocity is zero and its
\* Pose is the pure translation to the muzzle position.
C24_ProjectileVelocity ==
    \A i \in DOMAIN cannon :
        LET p == cannon[i]
        IN  /\ p.velocity.v = Rotate(p.muzzle, Vec3(muzzle_velocity, 0, 0))
            /\ p.velocity.w = Vec3(0, 0, 0)
            /\ p.pose = from_translation(truncate(Col(p.muzzle, 4)))

\* C25: the match-finished latch. There is never more than one MatchFinished;
\* an update that finds one changes nothing in the world; and an update in
\* which no MatchKingOfTheHill and no MatchTimeLimit is finished creates no
\* entity and no MatchFinished.
C25_MatchFinishedLatch ==
    /\ [](Len(finish.match_finished) <= 1)
    /\ [][ finish'.last = "update" =>
             /\ finish.match_finished # <<>> =>
                   finish' = [finish EXCEPT !.last = "update"]
             /\ ( /\ \A i \in DOMAIN finish.koth : ~finish.koth[i].is_finished
                  /\ \A i \in DOMAIN finish.time_limit : ~finish.time_limit[i].is_finished ) =>
                   /\ finish'.match_finished = finish.match_finished
                   /\ finish'.n_entities = finish.n_entities ]_vars

\* An update ran on a world whose MatchFinished was created at an earlier
\* clock reading, while a component was finished.
C25_Witness ==
    /\ finish.last = "update"
    /\ Len(finish.match_finished) = 1
    /\ finish.match_finished[1].duration < finish.clock
    /\ conclusion_of(finish) # None

\* C26: when the update creates the MatchFinished because a
\* MatchKingOfTheHill component is finished, the winner of the report is the
\* leader of a finished MatchKingOfTheHill component.
C26_WinnerIsLeaderOfFinished ==
    [][ ( /\ finish'.last = "update"
          /\ finish.match_finished = <<>>
          /\ finish'.match_finished # <<>>
          /\ finish'.match_finished[1].conclusion = "Criteria" ) =>
            \E i \in DOMAIN finish.koth :
                /\ finish.koth[i].is_finished
                /\ finish'.match_finished[1].winner = finish.koth[i].leader ]_vars

\* C30: in every world built by Construct::new and spawn_tank the Parent
\* links are acyclic and rooted at the vehicle body: every entity reaches an
\* entity without Parent in at most 3 links; a nozzle hangs on a barrel, a
\* barrel on a turret, a turret and a flag on a vehicle body, all of the same
\* tank, and the vehicle body has no Parent.
C30_ParentGraphRooted ==
    \A e \in DOMAIN tank.parent :
        /\ hops_to_root(tank, e, Len(tank.parent)) \in 0..3
        /\ tank.part[e] \in {"TankBody", "Clock"} => tank.parent[e] = None
        /\ tank.part[e] \in {"TankTurret", "TankBarrel", "Cannon", "Flag"} =>
              /\ tank.parent[e] # None
              /\ tank.part[root_of(tank, e, 3)] = "TankBody"
              /\ tank.part[tank.parent[e][1]] =
                    CASE tank.part[e] = "Cannon" -> "TankBarrel"
                      [] tank.part[e] = "TankBarrel" -> "TankTurret"
                      [] OTHER -> "TankBody"
        /\ tank.part[e] = "Cannon" => hops_to_root(tank, e, 3) = 3

\* spawn_tank was called twice on the world of Construct::new.
C30_Witness ==
    /\ tank.last = "spawn_tank"
    /\ Len(tank.parent) = 15
    /\ tank.part[1] = "Clock"
    /\ hops_to_root(tank, 14, 3) = 3
    /\ root_of(tank, 15, 3) = 11

====
